---- MODULE Spec2Model ----
(***************************************************************************)
(* shellai: the interactive session of src/main.rs (main,                  *)
(* read_multiline_input, select_ai_model) with the agent of                *)
(* src/agents/openai.rs (OpenAIAgent::new, generate_response,              *)
(* build_system_prompt, scan_directory).                                   *)
(*                                                                         *)
(* Text is a sequence of one-character strings.  Every call the source     *)
(* ends with `?` is a step that either succeeds or returns its error to    *)
(* the caller; disable_raw_mode is the one exception and is taken to       *)
(* succeed, since no code can restore a terminal whose restore call fails. *)
(* The environment of the process is fixed for the run: the program never  *)
(* sets or removes a variable.                                             *)
(***************************************************************************)
EXTENDS Integers, Sequences, FiniteSets, TLC

\* Longest text the operator types freely into the buffer.
MaxLen == 3

\* ------------------------------------------------------------------ text

Range(s) == {s[i] : i \in 1..Len(s)}

\* char::is_whitespace, on the characters the inputs use
is_whitespace(c) == c \in {" ", "\n", "\t", "\r"}

RECURSIVE trim_start(_)
trim_start(s) ==
    IF s # <<>> /\ is_whitespace(Head(s)) THEN trim_start(Tail(s)) ELSE s

RECURSIVE trim_end(_)
trim_end(s) ==
    IF s # <<>> /\ is_whitespace(s[Len(s)])
    THEN trim_end(SubSeq(s, 1, Len(s) - 1))
    ELSE s

\* str::trim
trim(s) == trim_end(trim_start(s))

\* char::to_ascii_lowercase, on the letters the inputs use
to_ascii_lowercase(c) ==
    CASE c = "Y" -> "y"
      [] c = "N" -> "n"
      [] c = "E" -> "e"
      [] c = "S" -> "s"
      [] OTHER -> c

\* str::eq_ignore_ascii_case
eq_ignore_ascii_case(s, t) ==
    /\ Len(s) = Len(t)
    /\ \A i \in 1..Len(s) : to_ascii_lowercase(s[i]) = to_ascii_lowercase(t[i])

\* Whether text s has text p at position i (1-based).
HasAt(s, p, i) ==
    /\ i >= 1
    /\ i + Len(p) - 1 <= Len(s)
    /\ \A k \in 1..Len(p) : s[i + k - 1] = p[k]

IsPrefix(p, s) == Len(p) <= Len(s) /\ HasAt(s, p, 1)

\* ------------------------------------------------------- model catalogue

get_available_models ==
    << [name |-> "GPT-4", model_id |-> "gpt-4"],
       [name |-> "GPT-3.5 Turbo", model_id |-> "gpt-3.5-turbo"],
       [name |-> "GPT-4o", model_id |-> "gpt-4o"] >>

ModelIds == {get_available_models[i].model_id : i \in 1..Len(get_available_models)}

\* The model main starts with.
DefaultModel == "gpt-4"

\* ------------------------------------------------------------ the agent

\* What std::env::var("OPENAI_API_KEY") can find in the environment: no
\* such variable, a value that is not valid Unicode, or a string.  The
\* second string holds a line feed, which no HTTP header value may hold.
KeyStrings == { <<"s", "k">>, <<"s", "k", "\n">> }

EnvValues == { [kind |-> "absent", value |-> <<>>],
               [kind |-> "not_unicode", value |-> <<>>] }
             \cup { [kind |-> "string", value |-> k] : k \in KeyStrings }

NoAgent == [api_key |-> <<>>, model |-> "none"]

\* The message of the error OpenAIAgent::new returns, as words.
KeyErrorMessage == <<"OPENAI_API_KEY", "environment", "variable", "not", "set">>

\* A wrong OpenAIAgent::new: a variable that cannot be read gives an empty
\* key (unwrap_or_default in place of map_err and `?`).
OpenAIAgent_new_empty_key(env, model) ==
    [ok |-> TRUE, agent |-> [api_key |-> env.value, model |-> model], err |-> <<>>]

\* OpenAIAgent::new: env::var fails for an absent variable and for a value
\* that is not Unicode; map_err gives both the same message.
OpenAIAgent_new(env, model) ==
    IF env.kind = "string"
    THEN [ok |-> TRUE, agent |-> [api_key |-> env.value, model |-> model],
          err |-> <<>>]
    ELSE [ok |-> FALSE, agent |-> NoAgent, err |-> KeyErrorMessage]

\* HeaderValue::from_str accepts visible ASCII, space and tab only.
header_value_ok(key) == \A i \in 1..Len(key) : key[i] \notin {"\n", "\r"}

\* ------------------------------------------------- the directory snapshot

\* A directory entry: its name, whether path.is_dir() holds, whether
\* fs::read_dir succeeds on it, and its entries in the order the file
\* system enumerates them.
File(name) == [name |-> name, dir |-> FALSE, ok |-> TRUE, kids |-> <<>>]
Dir(name, kids) == [name |-> name, dir |-> TRUE, ok |-> TRUE, kids |-> kids]
Unreadable(name) == [name |-> name, dir |-> TRUE, ok |-> FALSE, kids |-> <<>>]

\* The byte value of a character of a file name.
Code(c) ==
    CASE c = "." -> 46
      [] c = "a" -> 97
      [] c = "b" -> 98
      [] c = "c" -> 99
      [] OTHER -> 120

\* String ordering (Ord for String): bytewise lexicographic.
RECURSIVE StrLess(_, _)
StrLess(s, t) ==
    IF t = <<>> THEN FALSE
    ELSE IF s = <<>> THEN TRUE
    ELSE IF Code(Head(s)) # Code(Head(t)) THEN Code(Head(s)) < Code(Head(t))
    ELSE StrLess(Tail(s), Tail(t))

\* A wrong scan_directory: the names stay in the order read_dir gave them.
sort_not_done(names) == names

\* Vec<String>::sort
sort(names) == SortSeq(names, StrLess)

\* A wrong scan_directory: only the entries "." and ".." are left out.
starts_with_dot_only_dots(name) == name \in {<<".">>, <<".", ".">>}

\* file_name_str.starts_with('.')
starts_with_dot(name) == name # <<>> /\ name[1] = "."

\* A wrong scan_directory: the directories at max_depth are cut off, not
\* those below it.
too_deep_at_limit(current_depth, max_depth) == current_depth >= max_depth

\* current_depth > max_depth
too_deep(current_depth, max_depth) == current_depth > max_depth

\* "  ".repeat(n)
RECURSIVE indent(_)
indent(n) == IF n = 0 THEN <<>> ELSE <<" ", " ">> \o indent(n - 1)

Ellipsis == <<".", ".", ".">>

\* path.join(name): the entry of that name.
join(path, name) == CHOOSE e \in Range(path.kids) : e.name = name

NamesOf(entries) == [i \in 1..Len(entries) |-> entries[i].name]

RECURSIVE scan_directory(_, _, _)
RECURSIVE ScanDirs(_, _, _, _)

\* The loop over the sorted subdirectories: each one's line, then its scan;
\* the first failing scan ends the whole scan.
ScanDirs(path, dirs, max_depth, current_depth) ==
    IF dirs = <<>> THEN [ok |-> TRUE, text |-> <<>>]
    ELSE LET line == indent(current_depth) \o <<"D", " ">> \o Head(dirs) \o <<"/", "\n">>
             sub == scan_directory(join(path, Head(dirs)), max_depth, current_depth + 1)
             rest == ScanDirs(path, Tail(dirs), max_depth, current_depth)
         IN IF ~sub.ok THEN [ok |-> FALSE, text |-> <<>>]
            ELSE IF ~rest.ok THEN [ok |-> FALSE, text |-> <<>>]
            ELSE [ok |-> TRUE, text |-> line \o sub.text \o rest.text]

RECURSIVE FileLines(_, _)
FileLines(files, current_depth) ==
    IF files = <<>> THEN <<>>
    ELSE indent(current_depth) \o <<"F", " ">> \o Head(files) \o <<"\n">>
         \o FileLines(Tail(files), current_depth)

\* scan_directory: "D" and "F" stand for the folder and document glyphs.
scan_directory(path, max_depth, current_depth) ==
    IF too_deep(current_depth, max_depth) THEN [ok |-> TRUE, text |-> Ellipsis]
    ELSE IF ~path.dir THEN [ok |-> TRUE, text |-> <<>>]
    ELSE IF ~path.ok THEN [ok |-> FALSE, text |-> <<>>]
    ELSE LET visible == SelectSeq(path.kids, LAMBDA e : ~starts_with_dot(e.name))
             dirs == sort(NamesOf(SelectSeq(visible, LAMBDA e : e.dir)))
             files == sort(NamesOf(SelectSeq(visible, LAMBDA e : ~e.dir)))
             d == ScanDirs(path, dirs, max_depth, current_depth)
         IN IF ~d.ok THEN [ok |-> FALSE, text |-> <<>>]
            ELSE [ok |-> TRUE, text |-> d.text \o FileLines(files, current_depth)]

\* The depth build_system_prompt scans to.
PromptScanDepth == 2

\* The file-system states a turn can find: whether env::current_dir
\* succeeds, and the working directory.
FsStates ==
    { [cwd_ok |-> FALSE, cwd |-> Dir(<<"a">>, <<>>)],
      [cwd_ok |-> TRUE, cwd |-> Dir(<<"a">>, <<>>)],
      [cwd_ok |-> TRUE, cwd |-> Unreadable(<<"a">>)],
      [cwd_ok |-> TRUE,
       cwd |-> Dir(<<"a">>, << File(<<"b">>), Dir(<<"a">>, <<File(<<"c">>)>>),
                               File(<<".", "a">>) >>)],
      [cwd_ok |-> TRUE,
       cwd |-> Dir(<<"a">>, << Dir(<<"b">>, <<Unreadable(<<"c">>)>>) >>)],
      [cwd_ok |-> TRUE,
       cwd |-> Dir(<<"a">>, << Dir(<<"b">>,
                 << Dir(<<"c">>, << Unreadable(<<"a">>) >>) >>) >>)] }

\* The trees scan_directory is applied to on its own: a directory, its
\* entries and theirs, up to two entries to a directory in either order of
\* enumeration, hidden ones and an unreadable one among them.
LeafNames == {<<"a">>, <<"b">>, <<".", "a">>}
ChildNames == LeafNames \cup {<<"a", "b">>}
Listings(S) ==
    {<<>>} \cup {<<x>> : x \in S}
           \cup {p \in S \X S : p[1].name # p[2].name}
Leaves == {File(n) : n \in LeafNames} \cup {Dir(n, <<>>) : n \in LeafNames}
Children ==
    {File(n) : n \in ChildNames}
    \cup {Dir(n, k) : n \in ChildNames, k \in Listings(Leaves)}
    \cup {Unreadable(<<"b">>)}
Trees == {Dir(<<"a">>, k) : k \in Listings(Children)}

\* The greatest max_depth scan_directory is applied with.
MaxScanDepth == 1

\* The fixed fallback text, as one token.
DEFAULT_SYSTEM_PROMPT == <<"DEFAULT_SYSTEM_PROMPT">>

\* build_system_prompt: format! puts the path, the name and the tree
\* between the fixed parts of the text.
build_system_prompt(fs) ==
    IF ~fs.cwd_ok THEN [ok |-> FALSE, prompt |-> <<>>]
    ELSE LET dir_name == fs.cwd.name
             dir_path == <<"/">> \o fs.cwd.name
             dir_tree == scan_directory(fs.cwd, PromptScanDepth, 0)
         IN IF ~dir_tree.ok THEN [ok |-> FALSE, prompt |-> <<>>]
            ELSE [ok |-> TRUE,
                  prompt |-> <<"You are ShellAI. Current working directory: ">>
                             \o dir_path \o <<"Directory name: ">> \o dir_name
                             \o <<"Directory structure:">> \o dir_tree.text
                             \o <<"guidelines 1-12">>]

\* A wrong fallback: a failure of build_system_prompt leaves the system
\* message empty.
system_prompt_no_fallback(built) == IF built.ok THEN built.prompt ELSE <<>>

\* generate_response's match on build_system_prompt().
system_prompt(built) == IF built.ok THEN built.prompt ELSE DEFAULT_SYSTEM_PROMPT

\* ------------------------------------------------------ code blocks

\* The backtick character (a string cannot hold it).
Backtick == "BACKTICK"

Fence == <<Backtick, Backtick, Backtick>>

\* The alternatives of (?:bash|sh|) in the order the regex tries them.
FenceTags == << <<"b", "a", "s", "h">>, <<"s", "h">>, <<>> >>

\* The positions at or after `from` where a fence starts.
FencesFrom(text, from) == {j \in from..Len(text) : HasAt(text, Fence, j)}

Least(S) == CHOOSE x \in S : \A y \in S : x <= y

\* The alternatives that match at an opening fence at i: the tag is there
\* and a closing fence follows it.
TagsAt(text, i) ==
    {a \in 1..Len(FenceTags) :
        /\ HasAt(text, FenceTags[a], i + 3)
        /\ FencesFrom(text, i + 3 + Len(FenceTags[a])) # {}}

\* A wrong match: it ends before its closing fence, which the next search
\* can then take for an opening one.
MatchAt_closing_not_consumed(text, i) ==
    LET tag == FenceTags[Least(TagsAt(text, i))]
        from == i + 3 + Len(tag)
        close == Least(FencesFrom(text, from))
    IN [start |-> i, from |-> from, close |-> close,
        group |-> SubSeq(text, from, close - 1), end |-> close]

\* The match of ```(?:bash|sh|)([\s\S]*?)``` starting at i, when there is
\* one: the first alternative that matches, the nearest closing fence.
\* The match spans start to end - 1, group 1 spans from to close - 1.
MatchAt(text, i) ==
    LET tag == FenceTags[Least(TagsAt(text, i))]
        from == i + 3 + Len(tag)
        close == Least(FencesFrom(text, from))
    IN [start |-> i, from |-> from, close |-> close,
        group |-> SubSeq(text, from, close - 1), end |-> close + 3]

\* Regex::captures_iter: the successive leftmost matches, each search
\* starting where the previous match ended.
RECURSIVE captures_from(_, _)
captures_from(text, pos) ==
    LET starts == {i \in pos..Len(text) : HasAt(text, Fence, i) /\ TagsAt(text, i) # {}}
    IN IF starts = {} THEN <<>>
       ELSE LET m == MatchAt(text, Least(starts))
            IN <<m>> \o captures_from(text, m.end)

captures_iter(text) == captures_from(text, 1)

\* main: the code of each capture is group 1, trimmed.
bash_blocks(response) ==
    LET caps == captures_iter(response)
    IN [i \in 1..Len(caps) |-> trim(caps[i].group)]

\* Reply texts the endpoint can return.
ReplyPlain == <<"o", "k">>
ReplyOneBlock == Fence \o <<"b", "a", "s", "h", "\n", "l", "s", "\n">> \o Fence
ReplyTwoBlocks ==
    <<"a", " ">> \o Fence \o <<"b", "a", "s", "h", "\n", "l", "s", "\n">> \o Fence
    \o <<"\n">> \o Fence \o <<"\n", "p", "w", "d", "\n">> \o Fence \o <<"\n">>
ReplyThreeBlocks ==
    Fence \o <<"s", "h", " ", "a">> \o Fence \o Fence \o <<"b">> \o Fence
    \o Fence \o <<"c", " ">> \o Fence \o Fence \o <<"d">>
ReplyUnclosed == <<"a">> \o Fence \o <<"b", "a", "s", "h", "\n", "l", "s">>

Replies == {ReplyPlain, ReplyOneBlock, ReplyTwoBlocks, ReplyThreeBlocks, ReplyUnclosed}

\* The texts the pattern is applied to on its own: the replies above and
\* every text made of at most MaxTokens pieces, each a fence, a single
\* backtick, a tag, a letter or a space.
MaxTokens == 5
Tokens == {Fence, <<Backtick>>, <<"b", "a", "s", "h">>, <<"s", "h">>, <<"a">>, <<" ">>}
RECURSIVE Flatten(_)
Flatten(pieces) == IF pieces = <<>> THEN <<>> ELSE Head(pieces) \o Flatten(Tail(pieces))
Texts ==
    Replies \cup {Flatten(ts) : ts \in UNION {[1..n -> Tokens] : n \in 0..MaxTokens}}

\* ------------------------------------------------------- the model menu

IsDigit(c) == c \in {"0", "1", "2", "3", "4", "5", "6", "7", "8", "9"}

DigitValue(c) ==
    CASE c = "0" -> 0 [] c = "1" -> 1 [] c = "2" -> 2 [] c = "3" -> 3
      [] c = "4" -> 4 [] c = "5" -> 5 [] c = "6" -> 6 [] c = "7" -> 7
      [] c = "8" -> 8 [] OTHER -> 9

RECURSIVE DecimalValue(_)
DecimalValue(digits) ==
    IF digits = <<>> THEN 0
    ELSE 10 * DecimalValue(SubSeq(digits, 1, Len(digits) - 1))
         + DigitValue(digits[Len(digits)])

\* str::parse::<usize>: an optional "+", then one digit or more; -1 is Err.
parse_usize(s) ==
    LET digits == IF s # <<>> /\ s[1] = "+" THEN Tail(s) ELSE s
    IN IF digits # <<>> /\ \A i \in 1..Len(digits) : IsDigit(digits[i])
       THEN DecimalValue(digits)
       ELSE -1

\* A wrong select_ai_model: the selection indexes the catalogue from 0.
select_ai_model_zero_based(input) ==
    LET n == parse_usize(trim(input))
    IN IF n >= 0 /\ n < Len(get_available_models) THEN n + 1 ELSE 0

\* select_ai_model, from the line read: the number of the catalogue entry
\* returned, 0 for Ok(None).
select_ai_model(input) ==
    LET n == parse_usize(trim(input))
    IN IF n > 0 /\ n <= Len(get_available_models) THEN n ELSE 0

\* What io::stdin().read_line can put into the string: an empty string is
\* end of file.
MenuLines ==
    { <<>>, <<"\n">>, <<"1", "\n">>, <<"2", "\n">>, <<"3", "\n">>, <<"3">>,
      <<"0", "\n">>, <<"4", "\n">>, <<"x", "\n">>, <<" ", "2", " ", "\n">>,
      <<"+", "1", "\n">>, <<"0", "3", "\n">>, <<"1", "2", "\n">>,
      <<"-", "1", "\n">>, <<"1", " ", "2", "\n">> }

\* ---------------------------------------------------- the confirmation

\* A wrong test of the answer: any answer that starts with y or Y.
affirmative_starts_with(answer) ==
    LET t == trim(answer)
    IN t # <<>> /\ to_ascii_lowercase(t[1]) = "y"

\* main: execute_input.trim().eq_ignore_ascii_case("y")
affirmative(answer) == eq_ignore_ascii_case(trim(answer), <<"y">>)

\* What read_line can put into execute_input: an empty string is end of
\* file.
AnswerLines ==
    { <<>>, <<"\n">>, <<"y", "\n">>, <<" ", "Y", "\n">>,
      <<"y", "e", "s", "\n">>, <<"n", "\n">> }

\* A wrong loop over the blocks: it ends after the first block.
next_block_first_only(i, n) == 0

\* The for loop over bash_blocks: the block after block i of n, 0 when
\* block i was the last.
next_block(i, n) == IF i < n THEN i + 1 ELSE 0

\* ------------------------------------------------------------- the keys

\* The texts read_multiline_input returns for Ctrl+A and Ctrl+H.
CtrlAText == <<"c", "t", "r", "l", "+", "a">>
CtrlHText == <<"c", "t", "r", "l", "+", "h">>

\* Characters typed freely, and the characters of the two texts above.
FreeChars == {"a"}
KeyChars == FreeChars \cup Range(CtrlAText) \cup Range(CtrlHText) \cup {"s"}

\* The key events event::read can deliver: a code and the CONTROL modifier.
KeyEvents ==
    { [code |-> "Char", ch |-> c, ctrl |-> m] : c \in KeyChars, m \in BOOLEAN }
    \cup { [code |-> k, ch |-> "", ctrl |-> m] :
             k \in {"Enter", "Backspace", "Esc", "Tab"}, m \in BOOLEAN }

\* The texts the operator types: every text of at most MaxLen characters
\* over FreeChars and the line feed, and the two texts main compares the
\* input with.
Typable(text) ==
    \/ Len(text) <= MaxLen /\ Range(text) \subseteq FreeChars \cup {"\n"}
    \/ IsPrefix(text, CtrlAText)
    \/ IsPrefix(text, CtrlHText)

\* The arm of the match on the key code that handles the event.
Arm(ev) ==
    IF ev.code = "Char" /\ ev.ch = "s" /\ ev.ctrl THEN "submit"
    ELSE IF ev.code = "Enter" THEN "enter"
    ELSE IF ev.code = "Backspace" THEN "backspace"
    ELSE IF ev.code = "Char"
         THEN IF ev.ch = "c" /\ ev.ctrl THEN "exit"
              ELSE IF ev.ch = "a" /\ ev.ctrl THEN "models"
              ELSE IF ev.ch = "h" /\ ev.ctrl THEN "help"
              ELSE "push"
    ELSE IF ev.code = "Esc" THEN "cancel"
    ELSE "ignore"

\* A wrong read_multiline_input: Esc returns what was typed.
returned_cancel_keeps(arm, buf) ==
    CASE arm = "models" -> CtrlAText
      [] arm = "help" -> CtrlHText
      [] OTHER -> buf

\* The value read_multiline_input returns on the arms that end it.
returned(arm, buf) ==
    CASE arm = "submit" -> buf
      [] arm = "cancel" -> <<>>
      [] arm = "models" -> CtrlAText
      [] arm = "help" -> CtrlHText

\* A wrong main: the empty input is not skipped.
route_no_skip(input) ==
    IF input = CtrlHText THEN "help"
    ELSE IF input = CtrlAText THEN "models"
    ELSE "ask"

\* main's tests of user_input, in order.
route(input) ==
    IF input = CtrlHText THEN "help"
    ELSE IF input = CtrlAText THEN "models"
    ELSE IF input = <<>> THEN "skip"
    ELSE "ask"

\* ------------------------------------------------------ the completion

ChatCompletionRequest(model, system, prompt) ==
    [model |-> model,
     messages |-> << [role |-> "system", content |-> system],
                     [role |-> "user", content |-> prompt] >>,
     temperature |-> "0.7"]

NoRequest == [model |-> "none", messages |-> <<>>, temperature |-> "0.7"]

ChoiceLists ==
    {<<>>} \cup {<<r>> : r \in Replies} \cup {<<ReplyOneBlock, ReplyPlain>>}

\* What the endpoint can answer: no answer at all (send fails), or a status
\* and a body that can or cannot be read and parsed.
Responses ==
    { [kind |-> "transport_error", success |-> FALSE, body_ok |-> FALSE,
       choices |-> <<>>] }
    \cup { [kind |-> "http", success |-> s, body_ok |-> b, choices |-> c] :
             s \in BOOLEAN, b \in BOOLEAN, c \in ChoiceLists }

\* A wrong generate_response: a parsed body without choices yields an
\* empty reply instead of an error.
generate_result_empty_reply(resp) ==
    IF resp.kind = "transport_error"
    THEN [ok |-> FALSE, text |-> <<>>, err |-> "send"]
    ELSE IF ~resp.success
    THEN [ok |-> FALSE, text |-> <<>>,
          err |-> IF resp.body_ok THEN "API request failed" ELSE "body"]
    ELSE IF ~resp.body_ok
    THEN [ok |-> FALSE, text |-> <<>>, err |-> "json"]
    ELSE [ok |-> TRUE, text |-> IF resp.choices # <<>> THEN resp.choices[1] ELSE <<>>,
          err |-> ""]

\* generate_response after send: the status test, the parse, the first choice.
generate_result(resp) ==
    IF resp.kind = "transport_error"
    THEN [ok |-> FALSE, text |-> <<>>, err |-> "send"]
    ELSE IF ~resp.success
    THEN [ok |-> FALSE, text |-> <<>>,
          err |-> IF resp.body_ok THEN "API request failed" ELSE "body"]
    ELSE IF ~resp.body_ok
    THEN [ok |-> FALSE, text |-> <<>>, err |-> "json"]
    ELSE IF resp.choices # <<>>
    THEN [ok |-> TRUE, text |-> resp.choices[1], err |-> ""]
    ELSE [ok |-> FALSE, text |-> <<>>, err |-> "No response from API"]

\* ---------------------------------------------------------- the terminal

\* The columns the prompt "You: " takes.
PromptWidth == 5

\* The cursor while read_multiline_input runs: the row, counted from the
\* row of the prompt, and the column.
Home == [row |-> 0, col |-> 0]

\* print!("{}", c): the character is displayed at the cursor.
print_char(cur) == [cur EXCEPT !.col = @ + 1]

\* println!() in raw mode: the line feed moves the cursor one row down; it
\* returns to column 0 only where the terminal does that on output (output
\* processing is off in raw mode on Unix, on in the Windows console).
println(cur, lf_returns) ==
    [row |-> cur.row + 1, col |-> IF lf_returns THEN 0 ELSE cur.col]

\* print!("\x08 \x08"): back, a space over the character, back again.
erase_char(cur) == [cur EXCEPT !.col = IF @ > 0 THEN @ - 1 ELSE 0]

\* cursor::MoveUp(n) and cursor::MoveToColumn(n)
MoveUp(cur, n) == [cur EXCEPT !.row = IF @ >= n THEN @ - n ELSE 0]
MoveToColumn(cur, n) == [cur EXCEPT !.col = n]

\* String::pop
pop(buf) == SubSeq(buf, 1, Len(buf) - 1)

\* buffer.lines().last().map_or(0, |line| line.len()): str::lines ends
\* each line at a line feed and yields no empty line after a final one.
last_line_len(buf) ==
    IF buf = <<>> THEN 0
    ELSE LET s == IF buf[Len(buf)] = "\n" THEN pop(buf) ELSE buf
             feeds == {i \in 1..Len(s) : s[i] = "\n"}
         IN IF feeds = {} THEN Len(s)
            ELSE Len(s) - (CHOOSE i \in feeds : \A j \in feeds : j <= i)

\* The cursor after Backspace has popped a line feed and left buf.
cursor_after_join(cur, buf) ==
    MoveToColumn(MoveToColumn(MoveUp(cur, 1), 0), last_line_len(buf))

\* A wrong generate_response: the request is sent and its response is not
\* awaited, so main is back at the top of its loop.
after_send_no_await == "LoopTop"

\* Where main is once the request is sent: send().await holds it until the
\* response is there.
after_send == "Requesting"

\* ------------------------------------------------------------ the state

VARIABLES
    pc,             \* where main is: Start, LoopTop, Reading, ModelMenu,
                    \* Requesting, Offering, Exited (process::exit), Failed
                    \* (main returned an error)
    env,            \* OPENAI_API_KEY in the environment
    current_model,  \* main's current_model
    agent,          \* main's agent
    raw_mode,       \* whether the terminal is in raw mode
    buffer,         \* read_multiline_input's buffer
    user_input,     \* main's user_input, once read this turn
    exit_key,       \* the arm that ended read_multiline_input this turn
    request,        \* the completion request awaiting its response
    fs_seen,        \* the file-system state generate_response found
    calls,          \* the prompts generate_response was called with this turn
    shown,          \* what was printed this turn
    prompted,       \* whether the "You: " prompt was ever printed
    blocks,         \* bash_blocks of the reply, trimmed
    offered,        \* the numbers of the blocks displayed this turn
    answers,        \* the answers read this turn, one per block
    shell,          \* the calls of bash -c made this turn
    menu_input,     \* the line select_ai_model read this turn
    main_err,       \* the error main returned
    outstanding,    \* the requests sent and not yet answered
    response,       \* what the endpoint answered this turn
    result,         \* what generate_response returned this turn
    cursor,         \* the cursor while read_multiline_input runs
    line_ends,      \* the columns where the earlier lines of the input end
                    \* on the screen, the first line first
    lf_returns,     \* whether a line feed printed in raw mode returns the
                    \* cursor to column 0
    last_key,       \* the event event::read returned last this turn
    call,           \* a function applied on its own, and its arguments
    ret             \* what that function returned

completion == <<outstanding, response, result>>
terminal == <<cursor, line_ends, lf_returns>>
function == <<call, ret>>

vars == <<pc, env, current_model, agent, raw_mode, buffer, user_input, exit_key,
          request, fs_seen, calls, shown, prompted, blocks, offered, answers,
          shell, menu_input, main_err, completion, terminal, last_key, function>>

\* No text: a value no read returns.
NoInput == <<"NONE">>
NoFs == [cwd_ok |-> FALSE, cwd |-> File(<<>>)]
\* An I/O error, with the call that returned it.
IoError(call_name) == <<"io", call_name>>
NoError == <<>>
NoResponse == [kind |-> "none", success |-> FALSE, body_ok |-> FALSE,
               choices |-> <<>>]
NoResult == [ok |-> FALSE, text |-> <<>>, err |-> "none"]
NoKey == [code |-> "none", ch |-> "", ctrl |-> FALSE]
NoCall == [fn |-> "none"]
NoReturn == [fn |-> "none"]

Ev(kind) == <<kind, 0>>

\* The session before main runs; no function is applied on its own.
SessionInit ==
    /\ pc = "Start"
    /\ current_model = DefaultModel
    /\ agent = NoAgent
    /\ raw_mode = FALSE
    /\ buffer = <<>>
    /\ user_input = NoInput
    /\ exit_key = "none"
    /\ request = NoRequest
    /\ fs_seen = NoFs
    /\ calls = <<>>
    /\ shown = {}
    /\ prompted = FALSE
    /\ blocks = <<>>
    /\ offered = <<>>
    /\ answers = <<>>
    /\ shell = <<>>
    /\ menu_input = NoInput
    /\ main_err = NoError
    /\ outstanding = 0
    /\ response = NoResponse
    /\ result = NoResult
    /\ cursor = Home
    /\ line_ends = <<>>
    /\ lf_returns = FALSE
    /\ last_key = NoKey

Init ==
    /\ SessionInit
    /\ env \in EnvValues
    /\ call = NoCall
    /\ ret = NoReturn

\* main, up to the loop: the agent is created or main returns the error.
Start ==
    /\ pc = "Start"
    /\ LET r == OpenAIAgent_new(env, current_model)
       IN IF r.ok
          THEN /\ agent' = r.agent
               /\ pc' = "LoopTop"
               /\ main_err' = main_err
          ELSE /\ agent' = agent
               /\ pc' = "Failed"
               /\ main_err' = r.err
    /\ UNCHANGED <<env, current_model, raw_mode, buffer, user_input, exit_key,
                   request, fs_seen, calls, shown, prompted, blocks, offered,
                   answers, shell, menu_input, completion, terminal, last_key,
                   function>>

\* The top of the loop: the status line and the prompt, then
\* read_multiline_input up to its loop.  The flush of the prompt,
\* enable_raw_mode and the flush after it can each fail.
Prompt ==
    /\ pc = "LoopTop"
    /\ prompted' = TRUE
    /\ user_input' = NoInput
    /\ exit_key' = "none"
    /\ fs_seen' = NoFs
    /\ calls' = <<>>
    /\ shown' = {Ev("prompt")}
    /\ blocks' = <<>>
    /\ offered' = <<>>
    /\ answers' = <<>>
    /\ shell' = <<>>
    /\ menu_input' = NoInput
    /\ response' = NoResponse
    /\ result' = NoResult
    /\ last_key' = NoKey
    /\ line_ends' = <<>>
    /\ \E step \in {"prompt_flush_error", "enable_error", "flush_error", "ok"} :
          /\ buffer' = IF step = "prompt_flush_error" THEN buffer ELSE <<>>
          /\ raw_mode' = (step \in {"flush_error", "ok"})
          /\ pc' = IF step = "ok" THEN "Reading" ELSE "Failed"
          /\ main_err' = IF step = "ok" THEN main_err ELSE IoError(step)
          /\ cursor' = IF step = "ok" THEN MoveToColumn(Home, PromptWidth) ELSE Home
          /\ lf_returns' \in (IF step = "ok" THEN BOOLEAN ELSE {FALSE})
    /\ UNCHANGED <<env, current_model, agent, request, outstanding, function>>

\* generate_response up to the await of send: the headers, the system
\* prompt, the request.
GenerateResponse(prompt) ==
    /\ calls' = Append(calls, prompt)
    /\ main_err' = main_err
    /\ IF ~header_value_ok(agent.api_key)
       THEN /\ pc' = "LoopTop"
            /\ request' = NoRequest
            /\ outstanding' = outstanding
            /\ result' = [ok |-> FALSE, text |-> <<>>, err |-> "header"]
            /\ fs_seen' = fs_seen
            /\ shown' = shown \cup {Ev("thinking"), Ev("error")}
       ELSE \E fs \in FsStates :
              LET built == build_system_prompt(fs)
              IN /\ fs_seen' = fs
                 /\ request' = ChatCompletionRequest(agent.model,
                                                     system_prompt(built), prompt)
                 /\ outstanding' = outstanding + 1
                 /\ result' = result
                 /\ shown' = shown \cup {Ev("thinking")}
                                   \cup (IF built.ok THEN {} ELSE {Ev("warning")})
                 /\ pc' = after_send

\* main, from the return of read_multiline_input to the next point where it
\* waits: the help text, the model menu up to its read, the skip of an
\* empty input, or the thinking indicator and the call of generate_response.
Dispatch(input) ==
    LET r == route(input)
    IN IF r = "help"
       THEN /\ pc' = "LoopTop"
            /\ shown' = shown \cup {Ev("help")}
            /\ UNCHANGED <<calls, request, outstanding, result, fs_seen, main_err>>
       ELSE IF r = "models"
       THEN /\ shown' = shown \cup {Ev("menu")}
            /\ \E flush_ok \in BOOLEAN :
                  /\ pc' = IF flush_ok THEN "ModelMenu" ELSE "Failed"
                  /\ main_err' = IF flush_ok THEN main_err ELSE IoError("menu_flush")
            /\ UNCHANGED <<calls, request, outstanding, result, fs_seen>>
       ELSE IF r = "skip"
       THEN /\ pc' = "LoopTop"
            /\ UNCHANGED <<calls, request, outstanding, result, fs_seen, shown,
                           main_err>>
       ELSE \/ /\ pc' = "Failed"
               /\ main_err' = IoError("thinking_flush")
               /\ shown' = shown \cup {Ev("thinking")}
               /\ UNCHANGED <<calls, request, outstanding, result, fs_seen>>
            \/ GenerateResponse(input)

\* The arms that end read_multiline_input with a value: raw mode is
\* disabled, the value returned, and main goes on with it.
Return(arm) ==
    /\ \E ev \in KeyEvents :
          /\ Arm(ev) = arm
          /\ last_key' = ev
    /\ raw_mode' = FALSE
    /\ exit_key' = arm
    /\ user_input' = returned(arm, buffer)
    /\ cursor' = Home
    /\ line_ends' = <<>>
    /\ lf_returns' = FALSE
    /\ Dispatch(returned(arm, buffer))
    /\ UNCHANGED <<env, current_model, agent, buffer, prompted, blocks, offered,
                   answers, shell, menu_input, response, function>>

KeyCtrlS ==
    /\ pc = "Reading"
    /\ Return("submit")
KeyEsc ==
    /\ pc = "Reading"
    /\ Return("cancel")
KeyCtrlA ==
    /\ pc = "Reading"
    /\ Return("models")
KeyCtrlH ==
    /\ pc = "Reading"
    /\ Return("help")

\* Ctrl+C: raw mode is disabled and the process exits with status 0.
KeyCtrlC ==
    /\ pc = "Reading"
    /\ \E ev \in KeyEvents :
          /\ Arm(ev) = "exit"
          /\ last_key' = ev
    /\ raw_mode' = FALSE
    /\ exit_key' = "exit"
    /\ shown' = shown \cup {Ev("goodbye")}
    /\ pc' = "Exited"
    /\ cursor' = Home
    /\ line_ends' = <<>>
    /\ lf_returns' = FALSE
    /\ UNCHANGED <<env, current_model, agent, buffer, user_input, request, fs_seen,
                   calls, prompted, blocks, offered, answers, shell, menu_input,
                   main_err, completion, function>>

\* A step inside the loop of read_multiline_input on the event ev: the
\* buffer becomes buf, the cursor cur and the ends of the earlier lines
\* ends, by terminal calls that can fail; the error leaves the function,
\* and main, through `?`.
Edit(ev, buf, cur, ends, fallible) ==
    /\ last_key' = ev
    /\ buffer' = buf
    /\ cursor' = cur
    /\ line_ends' = ends
    /\ \E ok \in (IF fallible THEN BOOLEAN ELSE {TRUE}) :
          /\ pc' = IF ok THEN "Reading" ELSE "Failed"
          /\ main_err' = IF ok THEN main_err ELSE IoError("terminal")
    /\ UNCHANGED <<env, current_model, agent, raw_mode, user_input, exit_key,
                   request, fs_seen, calls, shown, prompted, blocks, offered,
                   answers, shell, menu_input, completion, lf_returns, function>>

\* Enter: a line feed is pushed, then println and flush.
KeyEnter ==
    /\ pc = "Reading"
    /\ Typable(Append(buffer, "\n"))
    /\ \E ev \in KeyEvents :
          /\ Arm(ev) = "enter"
          /\ Edit(ev, Append(buffer, "\n"), println(cursor, lf_returns),
                  Append(line_ends, cursor.col), TRUE)

\* Backspace: nothing on an empty buffer; else the last character is
\* popped, then the cursor is moved (after a line feed) or the character
\* erased on the screen.
KeyBackspace ==
    /\ pc = "Reading"
    /\ \E ev \in KeyEvents :
          /\ Arm(ev) = "backspace"
          /\ IF buffer = <<>>
             THEN Edit(ev, buffer, cursor, line_ends, FALSE)
             ELSE IF buffer[Len(buffer)] = "\n"
             THEN Edit(ev, pop(buffer), cursor_after_join(cursor, pop(buffer)),
                       pop(line_ends), TRUE)
             ELSE Edit(ev, pop(buffer), erase_char(cursor), line_ends, TRUE)

\* Any other character key, with or without CONTROL: the character is
\* pushed, printed and flushed.
KeyChar ==
    /\ pc = "Reading"
    /\ \E ev \in KeyEvents :
          /\ Arm(ev) = "push"
          /\ Typable(Append(buffer, ev.ch))
          /\ Edit(ev, Append(buffer, ev.ch), print_char(cursor), line_ends, TRUE)

\* A key no arm handles, or an event that is no key event.
KeyIgnored ==
    /\ pc = "Reading"
    /\ \E ev \in KeyEvents :
          /\ Arm(ev) = "ignore"
          /\ Edit(ev, buffer, cursor, line_ends, FALSE)

\* event::read returns an error.
ReadError ==
    /\ pc = "Reading"
    /\ pc' = "Failed"
    /\ main_err' = IoError("event_read")
    /\ UNCHANGED <<env, current_model, agent, raw_mode, buffer, user_input,
                   exit_key, request, fs_seen, calls, shown, prompted, blocks,
                   offered, answers, shell, menu_input, completion, terminal,
                   last_key, function>>

\* select_ai_model from its read_line on, and main's match on its result:
\* a selection sets current_model and replaces the agent (the old agent is
\* kept if OpenAIAgent::new fails); anything else changes nothing.
ModelMenu ==
    /\ pc = "ModelMenu"
    /\ \/ /\ pc' = "Failed"
          /\ main_err' = IoError("menu_read")
          /\ UNCHANGED <<current_model, agent, shown, menu_input>>
       \/ \E input \in MenuLines :
            LET n == select_ai_model(input)
                model_id == get_available_models[n].model_id
                new == OpenAIAgent_new(env, model_id)
            IN /\ menu_input' = input
               /\ pc' = "LoopTop"
               /\ main_err' = main_err
               /\ IF n = 0
                  THEN /\ shown' = shown \cup {Ev("cancelled")}
                       /\ UNCHANGED <<current_model, agent>>
                  ELSE /\ shown' = shown \cup {<<"switching", n>>}
                       /\ current_model' = model_id
                       /\ agent' = IF new.ok THEN new.agent ELSE agent
    /\ UNCHANGED <<env, raw_mode, buffer, user_input, exit_key, request, fs_seen,
                   calls, prompted, blocks, offered, answers, shell, completion,
                   terminal, last_key, function>>

\* Block i is displayed with its number and the question is printed and
\* flushed.
OfferBlock(i) ==
    /\ offered' = Append(offered, i)
    /\ \E flush_ok \in BOOLEAN :
          /\ pc' = IF flush_ok THEN "Offering" ELSE "Failed"
          /\ main_err' = IF flush_ok THEN main_err ELSE IoError("confirm_flush")

\* The rest of the loop body after block i: the next block is offered, or
\* the loop over the blocks ends and main's loop starts over.
AfterBlock(i) ==
    LET j == next_block(i, Len(blocks))
    IN IF j = 0
       THEN /\ pc' = "LoopTop"
            /\ UNCHANGED <<offered, main_err>>
       ELSE OfferBlock(j)

\* The response arrives: generate_response returns and main prints the
\* reply, extracts the blocks and offers the first, or prints the error.
Response ==
    /\ pc = "Requesting"
    /\ request' = NoRequest
    /\ outstanding' = outstanding - 1
    /\ fs_seen' = NoFs
    /\ \E resp \in Responses :
          LET r == generate_result(resp)
          IN /\ response' = resp
             /\ result' = r
             /\ IF r.ok
                THEN /\ shown' = shown \cup {Ev("reply")}
                     /\ blocks' = bash_blocks(r.text)
                     /\ IF blocks' = <<>>
                        THEN /\ pc' = "LoopTop"
                             /\ UNCHANGED <<offered, main_err>>
                        ELSE OfferBlock(1)
                ELSE /\ shown' = shown \cup {Ev("error")}
                     /\ pc' = "LoopTop"
                     /\ UNCHANGED <<blocks, offered, main_err>>
    /\ UNCHANGED <<env, current_model, agent, raw_mode, buffer, user_input,
                   exit_key, calls, prompted, answers, shell, menu_input,
                   terminal, last_key, function>>

\* The read of the answer fails: main returns the error.
ConfirmReadError ==
    /\ pc = "Offering"
    /\ pc' = "Failed"
    /\ main_err' = IoError("confirm_read")
    /\ UNCHANGED <<env, current_model, agent, raw_mode, buffer, user_input,
                   exit_key, request, fs_seen, calls, shown, prompted, blocks,
                   offered, answers, shell, menu_input, completion, terminal,
                   last_key, function>>

\* The answer is "y": the block goes to bash -c; if bash cannot be started
\* main returns the error, else the output and the status are printed.
ConfirmExecute ==
    /\ pc = "Offering"
    /\ \E answer \in AnswerLines :
          LET i == Len(offered)
          IN /\ affirmative(answer)
             /\ answers' = Append(answers, answer)
             /\ shell' = Append(shell, [block |-> i, code |-> blocks[i]])
             /\ \/ /\ pc' = "Failed"
                   /\ main_err' = IoError("bash_launch")
                   /\ shown' = shown \cup {<<"executing", i>>}
                   /\ offered' = offered
                \/ /\ \E status \in {"status_ok", "status_failed"} :
                         shown' = shown \cup {<<"executing", i>>, <<status, i>>}
                   /\ AfterBlock(i)
    /\ UNCHANGED <<env, current_model, agent, raw_mode, buffer, user_input,
                   exit_key, request, fs_seen, calls, prompted, blocks, menu_input,
                   completion, terminal, last_key, function>>

\* Any other answer: the block is skipped.
ConfirmSkip ==
    /\ pc = "Offering"
    /\ \E answer \in AnswerLines :
          LET i == Len(offered)
          IN /\ ~affirmative(answer)
             /\ answers' = Append(answers, answer)
             /\ shown' = shown \cup {<<"skipped", i>>}
             /\ AfterBlock(i)
    /\ UNCHANGED <<env, current_model, agent, raw_mode, buffer, user_input,
                   exit_key, request, fs_seen, calls, prompted, blocks, shell,
                   menu_input, completion, terminal, last_key, function>>

Next ==
    \/ Start
    \/ Prompt
    \/ KeyCtrlS
    \/ KeyEnter
    \/ KeyBackspace
    \/ KeyCtrlC
    \/ KeyCtrlA
    \/ KeyCtrlH
    \/ KeyChar
    \/ KeyEsc
    \/ KeyIgnored
    \/ ReadError
    \/ ModelMenu
    \/ Response
    \/ ConfirmReadError
    \/ ConfirmExecute
    \/ ConfirmSkip

Spec == Init /\ [][Next]_vars

\* ------------------------------------- the code-block pattern on its own

\* code_block_regex.captures_iter(text) and the trimmed codes, for a text,
\* main not running.
ExtractInit ==
    /\ SessionInit
    /\ env = [kind |-> "absent", value |-> <<>>]
    /\ call \in {[fn |-> "captures_iter", text |-> t] : t \in Texts}
    /\ ret = NoReturn

Extract ==
    /\ call.fn = "captures_iter"
    /\ ret = NoReturn
    /\ ret' = [fn |-> "captures_iter", captures |-> captures_iter(call.text),
               blocks |-> bash_blocks(call.text)]
    /\ UNCHANGED <<pc, env, current_model, agent, raw_mode, buffer, user_input,
                   exit_key, request, fs_seen, calls, shown, prompted, blocks,
                   offered, answers, shell, menu_input, main_err, completion,
                   terminal, last_key, call>>

ExtractNext == Extract

ExtractSpec == ExtractInit /\ [][ExtractNext]_vars

\* ------------------------------------------- scan_directory on its own

\* scan_directory(path, max_depth, 0) for a tree and a depth, main not
\* running.
ScanInit ==
    /\ SessionInit
    /\ env = [kind |-> "absent", value |-> <<>>]
    /\ call \in {[fn |-> "scan_directory", path |-> t, max_depth |-> d] :
                    t \in Trees, d \in 0..MaxScanDepth}
    /\ ret = NoReturn

Scan ==
    /\ call.fn = "scan_directory"
    /\ ret = NoReturn
    /\ LET r == scan_directory(call.path, call.max_depth, 0)
       IN ret' = [fn |-> "scan_directory", ok |-> r.ok, text |-> r.text]
    /\ UNCHANGED <<pc, env, current_model, agent, raw_mode, buffer, user_input,
                   exit_key, request, fs_seen, calls, shown, prompted, blocks,
                   offered, answers, shell, menu_input, main_err, completion,
                   terminal, last_key, call>>

ScanNext == Scan

ScanSpec == ScanInit /\ [][ScanNext]_vars

\* ------------------------------------------------------------ the claims

\* C1: raw mode is never left enabled once control has left
\* read_multiline_input: whenever the terminal is in raw mode, main is
\* inside the key loop.
C1_RawModeNeverLeftEnabled == raw_mode => pc = "Reading"

\* The failures of input reading, of the model menu, of the yes/no read
\* and of launching the shell.
SteadyStateFailures ==
    { IoError("enable_error"), IoError("flush_error"), IoError("event_read"),
      IoError("terminal"), IoError("menu_flush"), IoError("menu_read"),
      IoError("confirm_read"), IoError("bash_launch") }

\* C2: once the agent exists, a failure of input reading, of the model
\* menu, of the yes/no read or of launching the shell does not end the
\* session (main does not return it), and the process exits only on Ctrl+C.
C2_NoErrorEndsSession ==
    /\ pc = "Failed" => (agent = NoAgent \/ main_err \notin SteadyStateFailures)
    /\ pc = "Exited" => exit_key = "exit"

NamesKey(msg) == \E i \in 1..Len(msg) : msg[i] = "OPENAI_API_KEY"

NothingHappened ==
    /\ ~prompted
    /\ user_input = NoInput
    /\ calls = <<>>
    /\ request = NoRequest
    /\ shown = {}

\* The startup failure is fatal: main has returned the error of
\* OpenAIAgent::new before any prompt, input or request.
StartupFatal ==
    /\ (pc # "Start" /\ agent = NoAgent) =>
          /\ pc = "Failed"
          /\ NamesKey(main_err)
          /\ NothingHappened
    /\ pc = "Start" => NothingHappened

\* C3 as stated: OpenAIAgent::new fails with a message naming
\* OPENAI_API_KEY when the variable is absent, returns an agent with exactly
\* that key and that model id when it is present, and the failure at
\* startup is fatal.
C3_AgentFromPresentKey ==
    /\ pc # "Start" =>
          \A m \in ModelIds :
             LET r == OpenAIAgent_new(env, m)
             IN IF env.kind = "absent"
                THEN ~r.ok /\ NamesKey(r.err)
                ELSE r.ok /\ r.agent = [api_key |-> env.value, model |-> m]
    /\ (pc # "Start" /\ env.kind # "absent") =>
          agent # NoAgent /\ agent.api_key = env.value
    /\ StartupFatal

\* C3, amended: OpenAIAgent::new fails with a message naming
\* OPENAI_API_KEY when the variable is absent or its value is not valid
\* Unicode, returns an agent with exactly that key and that model id when
\* the value is a string, and the failure at startup is fatal.
C3_AgentFromUnicodeKey ==
    /\ \A m \in ModelIds :
          LET r == OpenAIAgent_new(env, m)
          IN IF env.kind \in {"absent", "not_unicode"}
             THEN ~r.ok /\ NamesKey(r.err)
             ELSE r.ok /\ r.agent = [api_key |-> env.value, model |-> m]
    /\ agent # NoAgent => env.kind = "string" /\ agent.api_key = env.value
    /\ (env.kind # "string" /\ pc # "Start") => agent = NoAgent
    /\ StartupFatal

C3_Witness ==
    /\ pc = "Failed"
    /\ env.kind = "absent"
    /\ main_err = KeyErrorMessage

\* An answer that is "y" or "Y" between white space.
SaysY(answer) ==
    \E i \in 1..Len(answer) :
       /\ answer[i] \in {"y", "Y"}
       /\ \A j \in 1..Len(answer) : j # i => answer[j] \in {" ", "\n", "\t", "\r"}

\* C4: a block goes to the shell only if the answer read for that block is
\* "y" in either case once trimmed; for any other answer the block does not
\* go to the shell and "Code execution skipped." is printed for it.
C4_ShellOnlyOnYes ==
    /\ \A k \in 1..Len(shell) :
          /\ shell[k].block \in 1..Len(answers)
          /\ SaysY(answers[shell[k].block])
          /\ shell[k].code = blocks[shell[k].block]
          /\ \A l \in 1..Len(shell) : shell[l].block = shell[k].block => l = k
    /\ \A i \in 1..Len(answers) :
          ~SaysY(answers[i]) =>
             /\ \A k \in 1..Len(shell) : shell[k].block # i
             /\ <<"skipped", i>> \in shown

C4_Witness ==
    /\ Len(answers) = 2
    /\ answers[1] = <<"y", "e", "s", "\n">>
    /\ answers[2] = <<" ", "Y", "\n">>
    /\ shell = << [block |-> 2, code |-> blocks[2]] >>

Handled(i) ==
    \/ <<"skipped", i>> \in shown
    \/ <<"status_ok", i>> \in shown
    \/ <<"status_failed", i>> \in shown

\* C5: the blocks are offered once each, in order, 1..n; a block that was
\* declined, or that ran with any exit status, is followed by the offer of
\* the next block; main's loop starts over only after all n were offered.
C5_EveryBlockOffered ==
    /\ Len(offered) <= Len(blocks)
    /\ \A k \in 1..Len(offered) : offered[k] = k
    /\ \A i \in 1..Len(answers) :
          (Handled(i) /\ i < Len(blocks)) => Len(offered) > i
    /\ pc = "Offering" => Len(answers) = Len(offered) - 1
    /\ pc = "LoopTop" => Len(offered) = Len(blocks) /\ Len(answers) = Len(blocks)
    /\ pc = "Reading" => offered = <<>> /\ blocks = <<>>

C5_Witness ==
    /\ pc = "LoopTop"
    /\ Len(blocks) = 3
    /\ offered = <<1, 2, 3>>
    /\ <<"skipped", 1>> \in shown
    /\ <<"status_failed", 2>> \in shown

\* C6: when read_multiline_input returned the empty text, main is back at
\* the top of its loop with generate_response not called, no request sent
\* and no thinking indicator shown.
C6_EmptyInputSkipped ==
    user_input = <<>> =>
       /\ pc = "LoopTop"
       /\ calls = <<>>
       /\ request = NoRequest
       /\ Ev("thinking") \notin shown

C6_Witness ==
    /\ user_input = <<>>
    /\ exit_key = "submit"
    /\ pc = "LoopTop"

\* C7: a non-empty buffer submitted with Ctrl+S makes exactly one call of
\* generate_response, with the buffer as the prompt, whatever the text; the
\* model menu and the help are reached by Ctrl+A and Ctrl+H only.  (The
\* turns that an I/O error ended are left out.)
C7_SubmittedTextIsSent ==
    pc # "Failed" =>
       /\ (exit_key = "submit" /\ buffer # <<>>) => calls = <<buffer>>
       /\ Ev("menu") \in shown => exit_key = "models"
       /\ Ev("help") \in shown => exit_key = "help"

\* After Esc, Ctrl+A or Ctrl+H: no call, no request, and where main is.
C8_State ==
    /\ exit_key \in {"cancel", "models", "help"} =>
          /\ calls = <<>>
          /\ request = NoRequest
          /\ Ev("thinking") \notin shown
          /\ user_input \in {<<>>, CtrlAText, CtrlHText}
    /\ exit_key = "cancel" => pc = "LoopTop" /\ user_input = <<>>
    /\ exit_key = "models" =>
          /\ Ev("menu") \in shown
          /\ pc \in {"ModelMenu", "LoopTop", "Failed"}
          /\ pc = "LoopTop" => menu_input # NoInput
          /\ pc = "Failed" => main_err \in {IoError("menu_flush"), IoError("menu_read")}
    /\ exit_key = "help" => pc = "LoopTop" /\ Ev("help") \in shown

Numerals(k) ==
    LET d == CASE k = 1 -> "1" [] k = 2 -> "2" [] OTHER -> "3"
    IN { <<d>>, <<"+", d>>, <<"0", d>> }

Selects(line, k) ==
    \E i \in 1..Len(line) : \E j \in i..Len(line) :
       /\ SubSeq(line, i, j) \in Numerals(k)
       /\ \A n \in 1..Len(line) : (n < i \/ n > j) => line[n] \in {" ", "\n"}

CatalogIds == <<"gpt-4", "gpt-3.5-turbo", "gpt-4o">>

\* The agent, and a request awaiting its response, are for current_model.
C9_State ==
    /\ agent # NoAgent => agent.model = current_model
    /\ request # NoRequest => request.model = current_model
    /\ current_model \in Range(CatalogIds)

\* What a step does to current_model and agent.
C9_Menu ==
    IF pc = "ModelMenu" /\ pc' = "LoopTop"
    THEN IF \E k \in 1..3 : Selects(menu_input', k)
         THEN \A k \in 1..3 :
                 Selects(menu_input', k) =>
                    /\ current_model' = CatalogIds[k]
                    /\ agent' = [api_key |-> env.value, model |-> CatalogIds[k]]
         ELSE UNCHANGED <<current_model, agent>>
    ELSE pc # "Start" => UNCHANGED <<current_model, agent>>

\* C9: a selection k in 1..3 sets current_model to the k-th model id and
\* replaces the agent by one for that id, any other line changes neither,
\* nothing else changes them, and in every state the agent's model is
\* current_model.
C9_ModelMatchesAgent == []C9_State /\ [][C9_Menu]_vars

C9_Witness ==
    /\ pc = "LoopTop"
    /\ menu_input = <<"3", "\n">>
    /\ current_model = "gpt-4o"
    /\ agent.model = "gpt-4o"

\* C10: when build_system_prompt fails, generate_response still sends the
\* request: a warning is printed, the system message is
\* DEFAULT_SYSTEM_PROMPT and the user message is the prompt.
C10_PromptFallback ==
    /\ (fs_seen # NoFs /\ ~build_system_prompt(fs_seen).ok) =>
          /\ pc = "Requesting"
          /\ Ev("warning") \in shown
          /\ request.model = agent.model
          /\ request.messages =
                << [role |-> "system", content |-> <<"DEFAULT_SYSTEM_PROMPT">>],
                   [role |-> "user", content |-> user_input] >>
    /\ (fs_seen # NoFs /\ build_system_prompt(fs_seen).ok) =>
          Ev("warning") \notin shown

C10_Witness ==
    /\ pc = "Requesting"
    /\ fs_seen.cwd_ok
    /\ ~build_system_prompt(fs_seen).ok
    /\ Ev("warning") \in shown

\* The response is one generate_response must refuse: a status that is not
\* a success, or a success whose parsed body has no choice.
Refused(resp) ==
    /\ resp.kind = "http"
    /\ \/ ~resp.success
       \/ resp.body_ok /\ resp.choices = <<>>

\* The response is a success whose parsed body has a choice.
Answered(resp) ==
    /\ resp.kind = "http"
    /\ resp.success
    /\ resp.body_ok
    /\ resp.choices # <<>>

C11_State ==
    /\ Refused(response) => ~result.ok /\ result.text = <<>>
    /\ Answered(response) => result.ok /\ result.text = response.choices[1]
    /\ (result # NoResult /\ ~result.ok) =>
          /\ pc = "LoopTop"
          /\ Ev("error") \in shown
          /\ Ev("reply") \notin shown
          /\ blocks = <<>>
          /\ offered = <<>>
          /\ answers = <<>>
          /\ shell = <<>>

\* C11: generate_response returns an error, and no text, for a response
\* whose status is not a success and for a success without choices, and
\* the first choice's content unchanged otherwise; main prints every error
\* of generate_response and goes back to the prompt with current_model and
\* agent as they were and without offering a code block that turn.
C11_ErrorsReturnToPrompt ==
    /\ []C11_State
    /\ [][(pc = "Requesting" \/ result' # result) =>
              UNCHANGED <<current_model, agent>>]_vars

C11_Witness ==
    /\ response.kind = "http"
    /\ response.success
    /\ response.body_ok
    /\ response.choices = <<>>
    /\ result.err = "No response from API"
    /\ pc = "LoopTop"
    /\ Ev("error") \in shown

\* ---- the text scan_directory returns, read back line by line

\* The lines of a text: each ends at a line feed; what follows the last
\* line feed, if anything, is the last one.
RECURSIVE SplitLines(_)
SplitLines(text) ==
    IF text = <<>> THEN <<>>
    ELSE LET feeds == {i \in 1..Len(text) : text[i] = "\n"}
         IN IF feeds = {} THEN <<text>>
            ELSE LET i == CHOOSE x \in feeds : \A y \in feeds : x <= y
                 IN <<SubSeq(text, 1, i - 1)>>
                    \o SplitLines(SubSeq(text, i + 1, Len(text)))

\* How many times c stands at the start of line.
LeadingCount(line, c) ==
    LET others == {i \in 1..Len(line) : line[i] # c}
    IN IF others = {} THEN Len(line)
       ELSE (CHOOSE x \in others : \A y \in others : x <= y) - 1

\* A line read back: the "..." before it (they close the line above, which
\* has no line feed of its own after them), its depth from the
\* indentation, whether it is a directory line, and the name.
ParseLine(line) ==
    LET dots == LeadingCount(line, ".")
        rest == SubSeq(line, dots + 1, Len(line))
        spaces == LeadingCount(rest, " ")
        entry == Len(rest) >= spaces + 3 /\ rest[spaces + 1] \in {"D", "F"}
        isdir == entry /\ rest[spaces + 1] = "D"
    IN [ellipses |-> dots \div 3,
        entry |-> entry,
        depth |-> spaces \div 2,
        dir |-> isdir,
        name |-> IF entry
                 THEN SubSeq(rest, spaces + 3, Len(rest) - (IF isdir THEN 1 ELSE 0))
                 ELSE <<>>]

Listing(text) ==
    LET ls == SplitLines(text)
    IN [i \in 1..Len(ls) |-> ParseLine(ls[i])]

EntryLines(list) == {i \in 1..Len(list) : list[i].entry}

\* The line of the directory the entry of line i is listed under: the
\* nearest line above it that is one level less deep (0: the scanned
\* directory itself, -1: there is none).
ParentLine(list, i) ==
    IF list[i].depth = 0 THEN 0
    ELSE LET above == {j \in EntryLines(list) : j < i /\ list[j].depth = list[i].depth - 1}
         IN IF above = {} THEN -1
            ELSE CHOOSE x \in above : \A y \in above : y <= x

\* The names from the scanned directory down to the entry of line i.
RECURSIVE PathOf(_, _)
PathOf(list, i) ==
    IF ParentLine(list, i) = 0 THEN <<list[i].name>>
    ELSE IF ParentLine(list, i) = -1 THEN << <<"?">>, list[i].name >>
    ELSE PathOf(list, ParentLine(list, i)) \o <<list[i].name>>

FollowedByEllipsis(list, i) == i < Len(list) /\ list[i + 1].ellipses = 1

Hidden(name) == name # <<>> /\ name[1] = "."

\* The entry a path of names leads to in a tree, if there is one.
RECURSIVE Exists(_, _)
Exists(tree, path) ==
    \/ path = <<>>
    \/ \E k \in Range(tree.kids) : k.name = Head(path) /\ Exists(k, Tail(path))

RECURSIVE Lookup(_, _)
Lookup(tree, path) ==
    IF path = <<>> THEN tree
    ELSE Lookup(CHOOSE k \in Range(tree.kids) : k.name = Head(path), Tail(path))

\* The paths of at most n names in a tree with no hidden name on them.
RECURSIVE VisiblePaths(_, _)
VisiblePaths(tree, n) ==
    IF n = 0 THEN {}
    ELSE LET seen == {k \in Range(tree.kids) : ~Hidden(k.name)}
         IN {<<k.name>> : k \in seen}
            \cup UNION { {<<k.name>> \o p : p \in VisiblePaths(k, n - 1)} :
                         k \in {e \in seen : e.dir} }

Scanned == ret.fn = "scan_directory" /\ ret.ok

\* C12: no line of the text scan_directory returns is for an entry whose
\* name starts with a dot, at any depth, and none is for something below a
\* hidden directory: every line is the line of one entry of the tree, no
\* two lines of the same, reached through names that all are not hidden.
C12_HiddenEntriesOmitted ==
    Scanned =>
        LET list == Listing(ret.text)
        IN \A i \in EntryLines(list) :
              /\ ~Hidden(list[i].name)
              /\ ParentLine(list, i) # -1
              /\ Exists(call.path, PathOf(list, i))
              /\ Lookup(call.path, PathOf(list, i)).dir = list[i].dir
              /\ \A j \in EntryLines(list) : j # i => PathOf(list, j) # PathOf(list, i)

\* A scan that listed an entry next to a hidden file and a hidden
\* directory that has entries of its own.
C12_Witness ==
    /\ Scanned
    /\ call.max_depth = 1
    /\ call.path.kids = << Dir(<<".", "a">>, <<File(<<"a">>), Dir(<<"b">>, <<>>)>>),
                           Dir(<<"b">>, <<File(<<".", "a">>), File(<<"b">>)>>) >>
    /\ Len(Listing(ret.text)) = 2

\* C13: the text lists only entries at depth 0 to max_depth; every
\* subdirectory at depth max_depth that is not hidden has its line, and
\* "..." right after it; with max_depth = 0 the lines are those of the
\* immediate children and none is a grandchild's.
C13_DepthLimit ==
    Scanned =>
        LET list == Listing(ret.text)
            tree == call.path
            children == {k \in Range(tree.kids) : ~Hidden(k.name)}
        IN /\ \A i \in EntryLines(list) : list[i].depth <= call.max_depth
           /\ \A p \in VisiblePaths(tree, call.max_depth + 1) :
                 (Len(p) = call.max_depth + 1 /\ Lookup(tree, p).dir) =>
                    \E i \in EntryLines(list) :
                       /\ PathOf(list, i) = p
                       /\ list[i].dir
                       /\ list[i].depth = call.max_depth
                       /\ FollowedByEllipsis(list, i)
           /\ call.max_depth = 0 =>
                 /\ \A i \in EntryLines(list) :
                       \E k \in children : k.name = list[i].name /\ k.dir = list[i].dir
                 /\ Cardinality(EntryLines(list)) = Cardinality(children)

\* A scan with max_depth = 0 of a directory with a file and a subdirectory
\* that has entries of its own.
C13_Witness ==
    /\ Scanned
    /\ call.max_depth = 0
    /\ call.path.kids = << File(<<"a">>),
                           Dir(<<"b">>, <<File(<<"a">>), Dir(<<"b">>, <<>>)>>) >>
    /\ ret.text = <<"D", " ", "b", "/", "\n", ".", ".", ".", "F", " ", "a", "\n">>

\* Bytewise order of two names.
LexLess(s, t) ==
    \E i \in 1..(Len(t)) :
       /\ \A j \in 1..(i - 1) : j <= Len(s) /\ s[j] = t[j]
       /\ \/ i = Len(s) + 1
          \/ i <= Len(s) /\ Code(s[i]) < Code(t[i])

\* The tree with every directory's entries enumerated in the opposite
\* order.
RECURSIVE Reversed(_)
Reversed(tree) ==
    [tree EXCEPT !.kids = [i \in 1..Len(tree.kids) |->
                              Reversed(tree.kids[Len(tree.kids) + 1 - i])]]

\* C14: under every visited directory the subdirectory lines are in
\* ascending order of name, the file lines too, and the subdirectory lines
\* come before the file lines; the text does not depend on the order the
\* entries are enumerated in.
C14_SortedAndDeterministic ==
    Scanned =>
        LET list == Listing(ret.text)
        IN /\ \A i, j \in EntryLines(list) :
                 (i < j /\ list[i].depth = list[j].depth
                        /\ ParentLine(list, i) = ParentLine(list, j)) =>
                    /\ list[i].dir = list[j].dir => LexLess(list[i].name, list[j].name)
                    /\ list[i].dir \/ ~list[j].dir
           /\ ret.text = scan_directory(Reversed(call.path), call.max_depth, 0).text

\* A scan of a directory enumerated as two subdirectories in descending
\* order, one with its files in descending order, the other with a file
\* before a subdirectory.
C14_Witness ==
    /\ Scanned
    /\ call.max_depth = 1
    /\ call.path.kids = << Dir(<<"b">>, <<File(<<"b">>), File(<<"a">>)>>),
                           Dir(<<"a", "b">>, <<File(<<"a">>), Dir(<<"b">>, <<>>)>>) >>
    /\ Len(Listing(ret.text)) = 6

\* A triple backtick starts at position j of text.
FenceAt(text, j) ==
    /\ j >= 1
    /\ j + 2 <= Len(text)
    /\ \A d \in 0..2 : text[j + d] = Backtick

WhiteSpace == {" ", "\n", "\t", "\r"}

\* code is group with the white space at both ends taken off.
Stripped(group, code) ==
    /\ (code # <<>> => code[1] \notin WhiteSpace /\ code[Len(code)] \notin WhiteSpace)
    /\ \E a \in 0..Len(group) :
          /\ a + Len(code) <= Len(group)
          /\ code = SubSeq(group, a + 1, a + Len(code))
          /\ \A i \in 1..Len(group) :
                (i <= a \/ i > a + Len(code)) => group[i] \in WhiteSpace

Extracted == ret.fn = "captures_iter"

\* C15: the blocks are the fenced regions of the text in the order of the
\* text and do not overlap: each starts at the first fence at or after the
\* end of the one before, has the tag bash, sh or none, and ends with the
\* first fence after the tag, which no later block starts at; what is left
\* after the last block holds no pair of fences; each code is the body
\* between tag and closing fence, trimmed, and holds no triple backtick;
\* a text without a triple backtick has no block.
C15_FencedBlocks ==
    Extracted =>
        LET text == call.text
            ms == ret.captures
            n == Len(ms)
            prev_end(k) == IF k = 1 THEN 1 ELSE ms[k - 1].end
            last_end == IF n = 0 THEN 1 ELSE ms[n].end
        IN /\ \A k \in 1..n :
                 /\ prev_end(k) <= ms[k].start
                 /\ \A j \in prev_end(k)..(ms[k].start - 1) : ~FenceAt(text, j)
                 /\ FenceAt(text, ms[k].start)
                 /\ SubSeq(text, ms[k].start + 3, ms[k].from - 1)
                       \in {<<"b", "a", "s", "h">>, <<"s", "h">>, <<>>}
                 /\ ms[k].from <= ms[k].close
                 /\ \A j \in ms[k].from..(ms[k].close - 1) : ~FenceAt(text, j)
                 /\ FenceAt(text, ms[k].close)
                 /\ ms[k].end = ms[k].close + 3
                 /\ ms[k].group = SubSeq(text, ms[k].from, ms[k].close - 1)
           /\ ~\E f \in last_end..Len(text), g \in last_end..Len(text) :
                 FenceAt(text, f) /\ FenceAt(text, g) /\ g >= f + 3
           /\ Len(ret.blocks) = n
           /\ \A k \in 1..n :
                 /\ Stripped(ms[k].group, ret.blocks[k])
                 /\ \A j \in 1..Len(ret.blocks[k]) : ~FenceAt(ret.blocks[k], j)
           /\ (\A j \in 1..Len(text) : ~FenceAt(text, j)) => n = 0
           /\ text = ReplyTwoBlocks =>
                 ret.blocks = << <<"l", "s">>, <<"p", "w", "d">> >>
           /\ text = ReplyUnclosed => n = 0

\* The text with a block tagged bash and a block without tag has given
\* its two blocks.
C15_Witness ==
    /\ Extracted
    /\ call.text = ReplyTwoBlocks
    /\ Len(ret.blocks) = 2

C16_State ==
    /\ outstanding \in {0, 1}
    /\ outstanding = 1 <=> pc = "Requesting"
    /\ request # NoRequest <=> pc = "Requesting"
    /\ pc \notin {"Start", "Failed"} => agent # NoAgent /\ agent.model = current_model
    /\ (pc = "LoopTop" /\ calls # <<>>) =>
          Ev("reply") \in shown \/ Ev("error") \in shown

\* What a step taken while a request is outstanding does: the response is
\* taken and its result displayed; no key is read, no menu line, no answer,
\* and the shell is not called.
C16_WhileOutstanding ==
    outstanding = 1 =>
        /\ outstanding' = 0
        /\ result' # NoResult
        /\ Ev("reply") \in shown' \/ Ev("error") \in shown'
        /\ pc' # "Reading"
        /\ UNCHANGED <<buffer, last_key, user_input, menu_input, answers, shell,
                       current_model, agent, calls>>

\* C16: the session is strictly serial: at most one completion request is
\* outstanding and the loop holds one agent, of the current model; the
\* prompt is next shown only when the request of the turn has returned and
\* its reply or error is displayed; while a request is outstanding the
\* only step is the arrival of its response.
C16_StrictlySerial ==
    /\ []C16_State
    /\ [][C16_WhileOutstanding]_vars
    /\ [][outstanding' > outstanding => outstanding = 0 /\ pc' = "Requesting"]_vars

\* A request is outstanding, sent by the agent made for a model chosen in
\* the menu.
C16_Witness ==
    /\ pc = "Requesting"
    /\ outstanding = 1
    /\ request.model = "gpt-4o"
    /\ agent.model = "gpt-4o"

\* C17: Backspace on a buffer that ends with a line feed removes the line
\* feed and puts the cursor one row up, at the column where the line above
\* ends on the screen, whatever the buffer holds (the line above may be
\* empty, or be the first line, displayed after the prompt).
C17_BackspaceJoinsLines ==
    [][(/\ pc = "Reading"
        /\ pc' = "Reading"
        /\ last_key'.code = "Backspace"
        /\ buffer # <<>>
        /\ buffer[Len(buffer)] = "\n")
       => /\ buffer' = SubSeq(buffer, 1, Len(buffer) - 1)
          /\ cursor'.row = cursor.row - 1
          /\ cursor'.col = line_ends[Len(line_ends)]]_vars

\* The buffer after a key, as the claim has it.
Replayed(buf, ev) ==
    IF ev.code = "Char" /\ ~ev.ctrl THEN Append(buf, ev.ch)
    ELSE IF ev.code = "Enter" THEN Append(buf, "\n")
    ELSE IF ev.code = "Backspace"
    THEN (IF buf = <<>> THEN buf ELSE SubSeq(buf, 1, Len(buf) - 1))
    ELSE buf

\* C18: every key that does not end read_multiline_input changes the
\* buffer as the replay does (a character key without modifier appends its
\* character, Enter a line feed, Backspace removes the last character if
\* there is one, any other key or combination changes nothing), and Ctrl+S
\* returns the buffer.
C18_KeyReplay ==
    [][/\ (pc = "Reading" /\ pc' = "Reading") =>
             buffer' = Replayed(buffer, last_key')
       /\ (pc = "Reading" /\ exit_key' = "submit") =>
             user_input' = buffer]_vars

====
